---- MODULE Spec2Model ----
(***************************************************************************)
(* A model of the hierarchy builder of dendron:                            *)
(*   - DNode / Note (tree node, path getter, addChild),                    *)
(*   - getFileMeta and FileParser (toNode, parse, report),                 *)
(*   - FileParserUtils (parseSchemaFile, parseSchemaVersion1).             *)
(*                                                                         *)
(* Representation.  A dotted string is the sequence of its dot-separated   *)
(* segments: "a.b.md" is <<"a","b","md">>, the empty string is <<>>, and   *)
(* joining with "." is concatenation of sequences.  A node is a record in  *)
(* `heap`; a reference to a node is its index in `heap`, and the null      *)
(* reference is NULL.  The id of a node is its index.                      *)
(***************************************************************************)
EXTENDS Integers, Sequences, FiniteSets, TLC

VARIABLES
  heap,       \* every DNode constructed so far
  given,      \* the FileParserOpts handed to the FileParser constructor
  opts,       \* FileParser.opts
  errors,     \* FileParser.errors
  missing,    \* FileParser.missing
  data,       \* the argument of parse: a list of file paths
  bad,        \* the files on which mdFile2NodeProps throws
  pc,         \* where the call of parse stands
  store,      \* parse: nodesStoreByFname
  prevNodes,  \* parse: prevNodes
  lvl,        \* parse: lvl
  thrown,     \* the exception parse has thrown, "none" if none
  result,     \* the value parse has returned
  yaml,       \* the content of every schema file (YAML.parse of the file)
  schemaOut   \* what the last call of parseSchema returned

vars == <<heap, given, opts, errors, missing, data, bad, pc, store,
          prevNodes, lvl, thrown, result, yaml, schemaOut>>

parserVars == <<given, opts, errors, missing, data, bad, store, prevNodes,
                lvl, thrown, result>>

schemaVars == <<yaml, schemaOut>>

(***************************************************************************)
(* Bounds of the model.                                                    *)
(***************************************************************************)
MaxFiles == 4        \* length of the file list given to parse
MaxBad == 1          \* number of files whose content fails to parse
TreeMaxNodes == 4    \* nodes constructed in the free use of addChild
MaxSchemaList == 1   \* length of the list given to parseSchema

(***************************************************************************)
(* Values.                                                                 *)
(***************************************************************************)
NULL == 0

Undefined == "undefined"

Last(s) == s[Len(s)]

Front(s) == SubSeq(s, 1, Len(s) - 1)

Range(s) == {s[i] : i \in DOMAIN s}

InjectiveSeqs(S, n) ==
  {s \in UNION {[1..k -> S] : k \in 0..n} :
     \A i, j \in DOMAIN s : i # j => s[i] # s[j]}

(***************************************************************************)
(* The files a file list is drawn from.                                    *)
(***************************************************************************)
RootFile == <<"root", "md">>

AllFiles ==
  << <<"root", "md">>,
     <<"root", "txt">>,
     <<"a", "md">>,
     <<"a", "b", "md">>,
     <<"a", "b", "c", "md">>,
     <<"a", "b", "d", "md">>,
     <<"a", "root", "a", "md">>,
     <<"root", "schema", "yml">> >>

(***************************************************************************)
(* DNode and Note.                                                         *)
(***************************************************************************)
\* Note.constructor over DNode.constructor: parent and children of the
\* options are overridden by null and [], parentId and childrenIds are kept.
NewNote(props) ==
  [ fname       |-> props.fname,
    title       |-> props.title,
    stub        |-> props.stub,
    parent      |-> NULL,
    children    |-> <<>>,
    parentId    |-> props.parentId,
    childrenIds |-> props.childrenIds ]

\* DNode.path
RECURSIVE Path(_, _)
Path(h, n) ==
  IF h[n].parent # NULL /\ h[h[n].parent].title # "root"
    THEN Path(h, h[n].parent) \o <<h[n].title>>
    ELSE <<h[n].title>>

\* DNode.addChild mutated: the child is pushed, its parent link is not set.
addChildNoLink(h, p, c) ==
  [h EXCEPT ![p].children = Append(@, c)]

\* DNode.addChild
addChild(h, p, c) ==
  [h EXCEPT ![p].children = Append(@, c), ![c].parent = p]

\* DNode.toRawProps, the relationship fields of the flattened record
toRawProps(h, n) ==
  [ id          |-> n,
    title       |-> h[n].title,
    parentId    |-> h[n].parentId,
    childrenIds |-> h[n].childrenIds ]

(***************************************************************************)
(* Helpers of FileParser that live in other packages.                      *)
(***************************************************************************)
\* path.parse(fpath).name: the file name without its last extension
Name(fpath) == IF Len(fpath) >= 2 THEN Front(fpath) ELSE fpath

\* DNodeUtils.dirName: the path without its last segment
dirName(p) == IF Len(p) = 0 THEN <<>> ELSE Front(p)

\* globMatch(["root.*"], fpath)
globMatchRoot(fpath) == Len(fpath) >= 2 /\ fpath[1] = "root"

\* mdFile2NodeProps: throws on the files of `bad`; the title of a note is
\* the last segment of its file name.
mdFile2NodeProps(fpath) ==
  IF fpath \in bad
    THEN [ok |-> FALSE]
    ELSE [ok |-> TRUE,
          fname |-> Name(fpath), title |-> Last(Name(fpath)), stub |-> FALSE,
          parentId |-> NULL, childrenIds |-> <<>>]

\* Note.logicalPath
logicalPath(h, n) == h[n].fname

\* DNodeUtils.findClosestParent: trims trailing segments until a node
\* indexed under the remaining name is found; the root for the empty name.
RECURSIVE findClosestParent(_, _)
findClosestParent(fpath, nodes) ==
  LET dirname == dirName(fpath) IN
  IF dirname = <<>>
    THEN nodes[<<"root">>]
    ELSE IF dirname \in DOMAIN nodes /\ nodes[dirname] # NULL
           THEN nodes[dirname]
           ELSE findClosestParent(dirname, nodes)

\* NoteUtils.createStubNotes: one stub for every segment of `to` between
\* `from` and `to`, each added to the one before by addChild, `to` added to
\* the last.  Returns the heap and the list of stubs.
RECURSIVE stubChain(_, _, _, _, _)
stubChain(h, parent, target, k, stubs) ==
  LET toPath == h[target].fname IN
  IF k >= Len(toPath)
    THEN [heap |-> addChild(h, parent, target), stubs |-> stubs]
    ELSE LET n  == Len(h) + 1
             h1 == Append(h, NewNote([fname |-> SubSeq(toPath, 1, k),
                                      title |-> toPath[k], stub |-> TRUE,
                                      parentId |-> NULL,
                                      childrenIds |-> <<>>]))
         IN stubChain(addChild(h1, parent, n), n, target, k + 1,
                      Append(stubs, n))

createStubNotes(h, from, target) ==
  LET fromPath == IF h[from].fname = <<"root">> THEN <<>> ELSE h[from].fname
  IN stubChain(h, from, target, Len(fromPath) + 1, <<>>)

(***************************************************************************)
(* getFileMeta.                                                            *)
(***************************************************************************)
\* the level of a file, mutated: every file deeper than 2 counts as 2
LvlFlat(fpath) == IF Len(Name(fpath)) > 2 THEN 2 ELSE Len(Name(fpath))

\* the level of a file: the number of segments of its name
Lvl(fpath) == Len(Name(fpath))

FileMeta(fpath) == [prefix |-> Name(fpath), fpath |-> fpath]

\* metaDict[l]: the files of level l in the order of the list
MetaAt(fpaths, l) ==
  LET atLvl(f) == Lvl(f) = l
      sel == SelectSeq(fpaths, atLvl)
  IN [i \in DOMAIN sel |-> FileMeta(sel[i])]

\* the keys of metaDict
MetaKeys(fpaths) == {Lvl(fpaths[i]) : i \in DOMAIN fpaths}

getFileMeta(fpaths) == [l \in MetaKeys(fpaths) |-> MetaAt(fpaths, l)]

Max(S) == CHOOSE x \in S : \A y \in S : y <= x

(***************************************************************************)
(* FileParser.                                                             *)
(***************************************************************************)
\* an optional boolean of an options object: "true", "false" or undefined
Booleans3 == {"true", "false", Undefined}

Given(b) == IF b THEN "true" ELSE "false"

\* FileParser.constructor mutated: errorOnEmpty defaults to false
FileParserDefaultsLax(o) ==
  [ errorOnEmpty    |-> IF o.errorOnEmpty = Undefined THEN FALSE
                        ELSE o.errorOnEmpty = "true",
    errorOnBadParse |-> IF o.errorOnBadParse = Undefined THEN TRUE
                        ELSE o.errorOnBadParse = "true" ]

\* FileParser.constructor: _.defaults(opts, {errorOnEmpty: true,
\* errorOnBadParse: true})
FileParserDefaults(o) ==
  [ errorOnEmpty    |-> IF o.errorOnEmpty = Undefined THEN TRUE
                        ELSE o.errorOnEmpty = "true",
    errorOnBadParse |-> IF o.errorOnBadParse = Undefined THEN TRUE
                        ELSE o.errorOnBadParse = "true" ]

\* toNode: _.defaults(opts, {errorOnEmpty: true, isRoot: false,
\* errorOnBadParse: true})
toNodeDefaults(o) ==
  [ errorOnEmpty    |-> IF o.errorOnEmpty = Undefined THEN TRUE
                        ELSE o.errorOnEmpty = "true",
    isRoot          |-> IF o.isRoot = Undefined THEN FALSE ELSE o.isRoot = "true",
    errorOnBadParse |-> IF o.errorOnBadParse = Undefined THEN TRUE
                        ELSE o.errorOnBadParse = "true" ]

\* _.find(parents, (p) => p.path === parentPath) || null
findParent(h, parents, parentPath) ==
  LET hits == {i \in DOMAIN parents : Path(h, parents[i]) = parentPath}
  IN IF hits = {} THEN NULL
     ELSE parents[CHOOSE i \in hits : \A j \in hits : i <= j]

\* toNode, the test for a missing parent, mutated: never missing
noParentNever(parent, isRoot) == FALSE

\* toNode, the test for a missing parent: !parent && !opts.isRoot
noParent(parent, isRoot) == parent = NULL /\ ~isRoot

\* FileParser.toNode.  st carries heap, errors and thrown; the result is
\* the state after the call, the node (NULL for null) and `missing` (the
\* empty string <<>> for null: the caller tests it for truthiness only).
toNode(st, ent, parents, o) ==
  LET d     == toNodeDefaults(o)
      props == mdFile2NodeProps(ent.fpath)
  IN
  IF ~props.ok
    THEN IF d.errorOnBadParse
           THEN [st |-> [st EXCEPT !.thrown = "BAD_PARSE"],
                 node |-> NULL, missing |-> <<>>]
           ELSE [st |-> [st EXCEPT !.errors =
                           Append(@, [status |-> "BAD_PARSE", ent |-> ent,
                                      parentPath |-> <<>>])],
                 node |-> NULL, missing |-> <<>>]
    ELSE
      LET parentPath == dirName(ent.prefix)
          parent     == findParent(st.heap, parents, parentPath)
          orphan     == noParent(parent, d.isRoot)
          errs       == IF orphan
                          THEN Append(st.errors,
                                 [status |-> "NO_PARENT_PATH", ent |-> ent,
                                  parentPath |-> parentPath])
                          ELSE st.errors
          n          == Len(st.heap) + 1
          h1         == Append(st.heap, NewNote(props))
          h2         == IF parent # NULL THEN addChild(h1, parent, n) ELSE h1
      IN
      IF orphan /\ d.errorOnEmpty
        THEN [st |-> [st EXCEPT !.errors = errs, !.thrown = "NO_PARENT_PATH"],
              node |-> NULL, missing |-> parentPath]
        ELSE [st |-> [st EXCEPT !.errors = errs, !.heap = h2],
              node |-> n,
              missing |-> IF orphan THEN parentPath ELSE <<>>]

\* _.max(_.keys(fileMetaDict).map(toInteger)) || 2
maxLvl(fpaths) ==
  IF MetaKeys(fpaths) = {} \/ Max(MetaKeys(fpaths)) = 0
    THEN 2 ELSE Max(MetaKeys(fpaths))

\* the state of a FileParser on which parse has not been called
ParserStart(o) ==
  [ heap |-> <<>>, errors |-> <<>>, missing |-> {}, thrown |-> "none",
    store |-> <<>>, prevNodes |-> <<>>, lvl |-> 0, pc |-> "start",
    result |-> {}, opts |-> o ]

\* parse, up to nodesStoreByFname["root"] = rootNode
parseRoot(ps, fpaths) ==
  IF fpaths = <<>>
    THEN [ps EXCEPT !.pc = "done"]
    ELSE
      LET meta == getFileMeta(fpaths) IN
      IF 1 \notin DOMAIN meta
        THEN [ps EXCEPT !.thrown = "TypeError", !.pc = "done"]
        ELSE
          LET roots == {i \in DOMAIN meta[1] : meta[1][i].fpath = RootFile}
          IN
          IF roots = {}
            THEN [ps EXCEPT !.pc = "done"]
            ELSE
              LET root == meta[1][CHOOSE i \in roots : TRUE]
                  r == toNode(ps, root, <<>>,
                         [isRoot |-> "true", errorOnEmpty |-> Undefined,
                          errorOnBadParse |-> Given(ps.opts.errorOnBadParse)])
              IN
              IF r.st.thrown # "none"
                THEN [r.st EXCEPT !.pc = "done"]
                ELSE [r.st EXCEPT !.store = (<<"root">> :> r.node),
                                  !.pc = "domain"]

\* parse, the level-1 files: toNode of every file other than root.md
RECURSIVE domainMap(_, _, _, _)
domainMap(st, ents, i, nodes) ==
  IF i > Len(ents) \/ st.thrown # "none"
    THEN [st |-> st, nodes |-> nodes]
    ELSE LET r == toNode(st, ents[i], <<>>,
                    [isRoot |-> "true", errorOnEmpty |-> Undefined,
                     errorOnBadParse |-> Undefined])
         IN domainMap(r.st, ents, i + 1,
                      IF r.st.thrown = "none" THEN Append(nodes, r.node)
                      ELSE nodes)

\* parse, prevNodes.forEach: rootNode.addChild(n); store[n.fname] = n
RECURSIVE domainAttach(_, _, _, _)
domainAttach(st, rootNode, nodes, i) ==
  IF i > Len(nodes)
    THEN st
    ELSE domainAttach(
           [st EXCEPT !.heap = addChild(@, rootNode, nodes[i]),
                      !.store = (st.heap[nodes[i]].fname :> nodes[i]) @@ @],
           rootNode, nodes, i + 1)

\* parse, from `let lvl = 2` to the head of the while loop
parseDomain(ps, fpaths) ==
  LET notRoot(e) == e.fpath # RootFile
      ents == SelectSeq(getFileMeta(fpaths)[1], notRoot)
      m == domainMap(ps, ents, 1, <<>>)
      rootNode == ps.store[<<"root">>]
  IN
  IF m.st.thrown # "none"
    THEN [m.st EXCEPT !.pc = "done"]
    ELSE IF rootNode = NULL /\ Len(m.nodes) > 0
      THEN [m.st EXCEPT !.thrown = "TypeError", !.pc = "done"]
      ELSE [domainAttach(m.st, rootNode, m.nodes, 1)
              EXCEPT !.prevNodes = m.nodes, !.lvl = 2, !.pc = "loop"]

\* stubNodes.forEach((ent2) => nodesStoreByFname[ent2.fname] = ent2)
RECURSIVE storeAll(_, _, _, _)
storeAll(nodes, h, list, i) ==
  IF i > Len(list)
    THEN nodes
    ELSE storeAll((h[list[i]].fname :> list[i]) @@ nodes, h, list, i + 1)

\* parse, the callback of the map over the files of one level.  st carries
\* curr, the non-null nodes the map has returned so far.
levelEnt(st, ent) ==
  IF globMatchRoot(ent.fpath)
    THEN st
    ELSE
      LET r == toNode(st, ent, st.prevNodes,
                 [isRoot |-> Undefined,
                  errorOnEmpty |-> Given(st.opts.errorOnEmpty),
                  errorOnBadParse |-> Given(st.opts.errorOnBadParse)])
      IN
      IF r.st.thrown # "none"
        THEN r.st
        ELSE IF r.missing # <<>>
          THEN
            LET closetParent ==
                  findClosestParent(logicalPath(r.st.heap, r.node),
                                    r.st.store)
            IN
            IF closetParent = NULL
              THEN [r.st EXCEPT !.thrown = "TypeError"]
              ELSE
                LET c == createStubNotes(r.st.heap, closetParent, r.node)
                IN [r.st EXCEPT
                      !.heap = c.heap,
                      !.store = storeAll(@, c.heap, c.stubs, 1),
                      !.missing = @ \cup {r.missing},
                      !.curr = Append(@, r.node)]
          ELSE IF r.node = NULL
            THEN r.st
            ELSE [r.st EXCEPT !.curr = Append(@, r.node)]

RECURSIVE levelMap(_, _, _)
levelMap(st, ents, i) ==
  IF i > Len(ents) \/ st.thrown # "none"
    THEN st
    ELSE levelMap(levelEnt(st, ents[i]), ents, i + 1)

\* parse, one iteration of the while loop
parseLevel(ps, fpaths) ==
  LET meta == getFileMeta(fpaths)
      ents == IF ps.lvl \in DOMAIN meta THEN meta[ps.lvl] ELSE <<>>
      st0  == [f \in DOMAIN ps \cup {"curr"} |->
                 IF f = "curr" THEN <<>> ELSE ps[f]]
      st   == levelMap(st0, ents, 1)
      out  == [f \in DOMAIN ps |-> st[f]]
  IN
  IF st.thrown # "none"
    THEN [out EXCEPT !.pc = "done"]
    ELSE [out EXCEPT !.lvl = @ + 1,
                     !.store = storeAll(@, st.heap, st.curr, 1),
                     !.prevNodes = st.curr]

\* parse, return _.values(nodesStoreByFname)
parseReturn(ps) ==
  [ps EXCEPT !.result = {ps.store[k] : k \in DOMAIN ps.store},
             !.pc = "done"]

\* one step of parse
parseStep(ps, fpaths) ==
  CASE ps.pc = "start"  -> parseRoot(ps, fpaths)
    [] ps.pc = "domain" -> parseDomain(ps, fpaths)
    [] ps.pc = "loop" /\ ps.lvl <= maxLvl(fpaths) -> parseLevel(ps, fpaths)
    [] ps.pc = "loop" /\ ps.lvl > maxLvl(fpaths)  -> parseReturn(ps)
    [] OTHER -> ps

\* FileParser.parse, run to its end on a fresh parser
RECURSIVE parseRun(_, _)
parseRun(ps, fpaths) ==
  IF ps.pc = "done" THEN ps ELSE parseRun(parseStep(ps, fpaths), fpaths)

parse(o, fpaths) == parseRun(ParserStart(o), fpaths)

\* FileParser.report
report(errs, miss) ==
  [numErrors |-> Len(errs), errors |-> errs, missing |-> miss]

(***************************************************************************)
(* The parser as a state machine.                                          *)
(***************************************************************************)
\* the parser state held in the variables
PS ==
  [ heap |-> heap, errors |-> errors, missing |-> missing,
    thrown |-> thrown, store |-> store, prevNodes |-> prevNodes,
    lvl |-> lvl, pc |-> pc, result |-> result, opts |-> opts ]

Becomes(ps) ==
  /\ heap' = ps.heap
  /\ errors' = ps.errors
  /\ missing' = ps.missing
  /\ thrown' = ps.thrown
  /\ store' = ps.store
  /\ prevNodes' = ps.prevNodes
  /\ lvl' = ps.lvl
  /\ pc' = ps.pc
  /\ result' = ps.result
  /\ UNCHANGED <<given, opts, data, bad, schemaVars>>

FileLists == InjectiveSeqs(Range(AllFiles), MaxFiles)

\* new FileParser(store, given), about to be given `data`
Init ==
  /\ given \in [errorOnEmpty : Booleans3, errorOnBadParse : Booleans3]
  /\ opts = FileParserDefaults(given)
  /\ data \in FileLists
  /\ bad \in {b \in SUBSET Range(data) : Cardinality(b) <= MaxBad}
  /\ heap = <<>>
  /\ errors = <<>>
  /\ missing = {}
  /\ thrown = "none"
  /\ store = <<>>
  /\ prevNodes = <<>>
  /\ lvl = 0
  /\ pc = "start"
  /\ result = {}
  /\ yaml = <<>>
  /\ schemaOut = <<>>

ParseRoot ==
  /\ pc = "start"
  /\ Becomes(parseRoot(PS, data))

ParseDomain ==
  /\ pc = "domain"
  /\ Becomes(parseDomain(PS, data))

ParseLevel ==
  /\ pc = "loop"
  /\ lvl <= maxLvl(data)
  /\ Becomes(parseLevel(PS, data))

ParseReturn ==
  /\ pc = "loop"
  /\ lvl > maxLvl(data)
  /\ Becomes(parseReturn(PS))

Next ==
  \/ ParseRoot
  \/ ParseDomain
  \/ ParseLevel
  \/ ParseReturn

Spec == Init /\ [][Next]_vars

(***************************************************************************)
(* DNode on its own: notes are constructed and linked by addChild.         *)
(***************************************************************************)
Titles == {"root", "a", "b"}

\* the nodes on the parent chain of n, n included
RECURSIVE Chain(_, _)
Chain(h, n) ==
  IF h[n].parent = NULL THEN {n} ELSE {n} \cup Chain(h, h[n].parent)

\* the topmost node of the parent chain of n
RECURSIVE Top(_, _)
Top(h, n) == IF h[n].parent = NULL THEN n ELSE Top(h, h[n].parent)

\* a tree that holds the synthetic root only
TreeInit ==
  /\ heap = << NewNote([fname |-> <<"root">>, title |-> "root",
                        stub |-> FALSE, parentId |-> NULL,
                        childrenIds |-> <<>>]) >>
  /\ pc = "tree"
  /\ given = [errorOnEmpty |-> Undefined, errorOnBadParse |-> Undefined]
  /\ opts = FileParserDefaults(given)
  /\ data = <<>>
  /\ bad = {}
  /\ errors = <<>>
  /\ missing = {}
  /\ thrown = "none"
  /\ store = <<>>
  /\ prevNodes = <<>>
  /\ lvl = 0
  /\ result = {}
  /\ yaml = <<>>
  /\ schemaOut = <<>>

\* new Note({title, parentId})
TreeNewNote ==
  /\ Len(heap) < TreeMaxNodes
  /\ \E t \in Titles, pid \in {NULL, 1} :
       heap' = Append(heap, NewNote([fname |-> <<t>>, title |-> t,
                                     stub |-> FALSE, parentId |-> pid,
                                     childrenIds |-> <<>>]))
  /\ UNCHANGED <<pc, parserVars, schemaVars>>

\* p.addChild(c), for a note c that is not in a tree yet
TreeAddChild ==
  /\ \E p, c \in DOMAIN heap :
       /\ c # 1
       /\ heap[c].parent = NULL
       /\ c \notin Chain(heap, p)
       /\ heap' = addChild(heap, p, c)
  /\ UNCHANGED <<pc, parserVars, schemaVars>>

TreeNext ==
  \/ TreeNewNote
  \/ TreeAddChild

TreeSpec == TreeInit /\ [][TreeNext]_vars

(***************************************************************************)
(* FileParserUtils: schema files.                                          *)
(***************************************************************************)
MaxEntries == 1      \* entries written in one schema file

\* an absent pattern; the empty pattern "" is <<>>
NoPattern == <<Undefined>>

Falsy(p) == p = NoPattern \/ p = <<>>

SchemaFile(m) == <<m, "schema", "yml">>

\* SchemaUtils.fname: the name of a schema file without ".schema"
SchemaUtilsFname(fname) ==
  IF Len(fname) >= 1 /\ Last(fname) = "schema" THEN Front(fname) ELSE fname

\* Schema.createRawProps({...o, fname})
createRawProps(o, fname) ==
  [ id |-> o.id, fname |-> fname, data |-> [pattern |-> o.pattern],
    parent |-> NULL, children |-> o.children ]

\* parseSchemaVersion1, the rewriting of an imported record, mutated: the
\* children keep their raw ids
importRewriteRawChildren(ent, fname) ==
  LET domain == SchemaUtilsFname(ent.fname) IN
  [ id |-> domain \o ent.id,
    fname |-> fname,
    data |-> [pattern |-> IF Falsy(ent.data.pattern) THEN ent.id
                          ELSE ent.data.pattern],
    parent |-> NULL,
    children |-> ent.children ]

\* parseSchemaVersion1, the rewriting of an imported record
importRewrite(ent, fname) ==
  LET domain == SchemaUtilsFname(ent.fname) IN
  [ id |-> domain \o ent.id,
    fname |-> fname,
    data |-> [pattern |-> IF Falsy(ent.data.pattern) THEN ent.id
                          ELSE ent.data.pattern],
    parent |-> NULL,
    children |-> [i \in DOMAIN ent.children |-> domain \o ent.children[i]] ]

RECURSIVE parseSchemaFile(_)
RECURSIVE flatImports(_, _)

\* _.flatMap(imports, (ent) => parseSchemaFile(`${ent}.schema.yml`))
flatImports(imports, i) ==
  IF i > Len(imports)
    THEN <<>>
    ELSE parseSchemaFile(SchemaFile(imports[i])) \o flatImports(imports, i + 1)

\* FileParserUtils.parseSchemaVersion1
parseSchemaVersion1(schema, fname) ==
  LET imported == flatImports(schema.imports, 1)
      schemasFromImport ==
        [i \in DOMAIN imported |-> importRewrite(imported[i], fname)]
      schemasFromFile ==
        [i \in DOMAIN schema.schemas |->
           createRawProps(schema.schemas[i], fname)]
  IN schemasFromImport \o schemasFromFile

\* FileParserUtils.parseSchemaFile
parseSchemaFile(fpath) ==
  LET fname == Name(fpath)
      schemaOpts == yaml[fpath]
  IN IF ~schemaOpts.isArray
       THEN parseSchemaVersion1(schemaOpts, fname)
       ELSE [i \in DOMAIN schemaOpts.schemas |->
               createRawProps(schemaOpts.schemas[i], fname)]

\* FileParser.parseSchema
RECURSIVE parseSchema(_, _)
parseSchema(list, i) ==
  IF i > Len(list)
    THEN <<>>
    ELSE parseSchemaFile(list[i]) \o parseSchema(list, i + 1)

RawEntries ==
  { [id |-> <<"x">>, pattern |-> NoPattern, children |-> << <<"y">> >>],
    [id |-> <<"x">>, pattern |-> <<"p">>, children |-> <<>>],
    [id |-> <<"y">>, pattern |-> <<>>, children |-> << <<"x">> >>] }

EntryLists == UNION {[1..k -> RawEntries] : k \in 0..MaxEntries}

\* a schema file of version 0: a bare list of entries
Version0 == {[isArray |-> TRUE, imports |-> <<>>, schemas |-> l] :
               l \in EntryLists}

\* a schema file of version 1 with one of the given import lists
Version1(importLists) ==
  {[isArray |-> FALSE, imports |-> im, schemas |-> l] :
     im \in importLists, l \in EntryLists}

SchemaFiles == {SchemaFile("domain"), SchemaFile("shared"), SchemaFile("base")}

\* the schema files on disk; the imports have no cycle
SchemaInit ==
  /\ \E d \in Version0 \cup
              Version1({<<>>, <<"shared">>, <<"shared", "base">>}),
        s \in Version0 \cup Version1({<<"base">>}),
        b \in Version0 :
       yaml = (SchemaFile("domain") :> d) @@ (SchemaFile("shared") :> s)
              @@ (SchemaFile("base") :> b)
  /\ schemaOut = [called |-> FALSE, data |-> <<>>, out |-> <<>>]
  /\ pc = "schema"
  /\ heap = <<>>
  /\ given = [errorOnEmpty |-> Undefined, errorOnBadParse |-> Undefined]
  /\ opts = FileParserDefaults(given)
  /\ data = <<>>
  /\ bad = {}
  /\ errors = <<>>
  /\ missing = {}
  /\ thrown = "none"
  /\ store = <<>>
  /\ prevNodes = <<>>
  /\ lvl = 0
  /\ result = {}

\* parser.parseSchema(list)
ParseSchema ==
  /\ \E list \in UNION {[1..k -> SchemaFiles] : k \in 0..MaxSchemaList} :
       schemaOut' = [called |-> TRUE, data |-> list,
                     out |-> parseSchema(list, 1)]
  /\ UNCHANGED <<heap, pc, parserVars, yaml>>

SchemaNext == ParseSchema

SchemaSpec == SchemaInit /\ [][SchemaNext]_vars

(***************************************************************************)
(* Vocabulary of the properties.                                           *)
(***************************************************************************)
Returned == pc = "done" /\ thrown = "none"

\* the node reached from n after at most k steps along parent
RECURSIVE Climb(_, _, _)
Climb(h, n, k) ==
  IF k = 0 \/ h[n].parent = NULL THEN n ELSE Climb(h, h[n].parent, k - 1)

\* n reaches node 1, the node of root.md, and the chain stops there
ReachesRoot(h, n) == h[1].parent = NULL /\ Climb(h, n, Len(h)) = 1

Stubs(h) == {n \in DOMAIN h : h[n].stub}

Reals(h) == {n \in DOMAIN h : ~h[n].stub}

ErrorsOf(status) == {errors[i] : i \in {j \in DOMAIN errors :
                                          errors[j].status = status}}

\* the files of the list that parse turns into nodes when nothing fails
Materialized(fpaths) ==
  {f \in Range(fpaths) : Lvl(f) = 1 \/ ~globMatchRoot(f)}

\* the files of level >= 2 whose expected parent is the name of no
\* materialized file
Orphans(fpaths) ==
  {f \in Materialized(fpaths) :
     /\ Lvl(f) >= 2
     /\ ~\E g \in Materialized(fpaths) : Name(g) = dirName(Name(f))}

\* the non-empty proper prefixes of a name
ProperPrefixes(name) == {SubSeq(name, 1, k) : k \in 1..(Len(name) - 1)}

RootStems(fpaths) ==
  {i \in DOMAIN fpaths : Name(fpaths[i]) = <<"root">>}

DistinctStems(fpaths) ==
  \A i, j \in DOMAIN fpaths : i # j => Name(fpaths[i]) # Name(fpaths[j])

\* the same files in the order of AllFiles
Canonical(fpaths) ==
  LET in(f) == f \in Range(fpaths) IN SelectSeq(AllFiles, in)

\* name and path of every returned node with name and path of its parent
Links(h, res) ==
  { << h[n].fname, Path(h, n),
       IF h[n].parent = NULL THEN <<>> ELSE h[h[n].parent].fname,
       IF h[n].parent = NULL THEN <<>> ELSE Path(h, h[n].parent) >> :
    n \in res \ {NULL} }

(***************************************************************************)
(* C1.  Reachability: once parse has returned on a list that holds         *)
(* root.md, every returned node reaches the root node along parent in      *)
(* finitely many steps, and no returned node but the root has a null       *)
(* parent.                                                                 *)
(***************************************************************************)
C1_Reachability ==
  (Returned /\ RootFile \in Range(data)) =>
    \A n \in result \ {NULL} :
      /\ ReachesRoot(heap, n)
      /\ heap[n].parent = NULL => n = 1

\* parse has returned a tree with a stub and a real note under a stub
C1_Witness ==
  /\ Returned
  /\ ~opts.errorOnEmpty
  /\ \E n \in result \ {NULL} :
       /\ ~heap[n].stub
       /\ Len(heap[n].fname) = 3
       /\ heap[heap[n].parent].stub
       /\ ReachesRoot(heap, n)

(***************************************************************************)
(* C3.  Stub fidelity: with errorOnEmpty = false and no parse failure, the *)
(* stubs are exactly the absent proper prefixes of the orphan files, one   *)
(* stub each; every stub and every orphan hangs under the node named by    *)
(* its dirName (the root for one segment); `missing` holds the expected    *)
(* parent path of every orphan.  For [root.md, a.b.c.md] there are two     *)
(* stubs, of paths a and a.b, a.b.c is the child of stub a.b and           *)
(* report().missing is ["a.b"].                                            *)
(***************************************************************************)
C3_StubFidelity ==
  (Returned /\ ~opts.errorOnEmpty /\ bad = {} /\ RootFile \in Range(data)
     /\ DistinctStems(data)) =>
    LET orphans   == {Name(f) : f \in Orphans(data)}
        realNames == {heap[n].fname : n \in Reals(heap)}
        absent    == UNION {ProperPrefixes(o) : o \in orphans} \ realNames
        hung(n)   == /\ heap[n].parent # NULL
                     /\ heap[heap[n].parent].fname =
                          (IF Len(heap[n].fname) = 1 THEN <<"root">>
                           ELSE dirName(heap[n].fname))
                     /\ \E i \in DOMAIN heap[heap[n].parent].children :
                          heap[heap[n].parent].children[i] = n
    IN /\ {heap[n].fname : n \in Stubs(heap)} = absent
       /\ Cardinality(Stubs(heap)) = Cardinality(absent)
       /\ \A n \in Stubs(heap) : hung(n)
       /\ \A n \in Reals(heap) : heap[n].fname \in orphans => hung(n)
       /\ report(errors, missing).missing = {dirName(o) : o \in orphans}
       /\ data = <<RootFile, <<"a", "b", "c", "md">> >> =>
            /\ Cardinality(Stubs(heap)) = 2
            /\ {Path(heap, n) : n \in Stubs(heap)} = {<<"a">>, <<"a", "b">>}
            /\ \A n \in Stubs(heap) : ReachesRoot(heap, n)
            /\ \E n \in Reals(heap) :
                 /\ heap[n].fname = <<"a", "b", "c">>
                 /\ heap[heap[n].parent].stub
                 /\ Path(heap, heap[n].parent) = <<"a", "b">>
            /\ report(errors, missing).missing = {<<"a", "b">>}

\* parse has returned on [root.md, a.b.c.md] and has made two stubs
C3_Witness ==
  /\ Returned
  /\ ~opts.errorOnEmpty
  /\ data = <<RootFile, <<"a", "b", "c", "md">> >>
  /\ bad = {}
  /\ Cardinality(Stubs(heap)) = 2
  /\ missing = {<<"a", "b">>}

(***************************************************************************)
(* C6.  Error-on-empty: on a list that holds root.md and an orphan file,   *)
(* with no parse failure, parse throws when errorOnEmpty is true, which it *)
(* is when the option is not given, and throws nothing when it is false;   *)
(* either way `errors` holds a NO_PARENT_PATH entry for an orphan file     *)
(* (for every orphan file when parse goes on).                             *)
(***************************************************************************)
C6_ErrorOnEmpty ==
  (pc = "done" /\ bad = {} /\ RootFile \in Range(data)
     /\ Orphans(data) # {}) =>
    /\ given.errorOnEmpty = Undefined => opts.errorOnEmpty
    /\ opts.errorOnEmpty =>
         /\ thrown = "NO_PARENT_PATH"
         /\ Len(errors) >= 1
         /\ errors[Len(errors)].status = "NO_PARENT_PATH"
         /\ errors[Len(errors)].ent.fpath \in Orphans(data)
         /\ errors[Len(errors)].parentPath =
              dirName(errors[Len(errors)].ent.prefix)
    /\ ~opts.errorOnEmpty =>
         /\ thrown = "none"
         /\ \A f \in Orphans(data) :
              \E e \in ErrorsOf("NO_PARENT_PATH") :
                e.ent.fpath = f /\ e.parentPath = dirName(Name(f))

\* parse has thrown on an orphan file under the default options
C6_Witness ==
  /\ pc = "done"
  /\ given.errorOnEmpty = Undefined
  /\ bad = {}
  /\ Orphans(data) # {}
  /\ thrown = "NO_PARENT_PATH"
  /\ ErrorsOf("NO_PARENT_PATH") # {}

(***************************************************************************)
(* C9.  Input-order independence: with errorOnEmpty = false and no parse   *)
(* failure, parse of a list and parse of the same files in another order   *)
(* end alike and yield the same node names and paths with the same parent  *)
(* for each; a file whose parent file is in the list hangs under the node  *)
(* of that file, never under a stub.                                       *)
(***************************************************************************)
C9_OrderIndependence ==
  (pc = "done" /\ bad = {} /\ ~opts.errorOnEmpty) =>
    LET other == parse(opts, Canonical(data)) IN
    /\ other.thrown = thrown
    /\ Links(other.heap, other.result) = Links(heap, result)
    /\ (thrown = "none" /\ DistinctStems(data)) =>
         \A n \in Reals(heap) :
           (/\ Len(heap[n].fname) >= 2
            /\ \E g \in Materialized(data) :
                 Name(g) = dirName(heap[n].fname)) =>
             /\ heap[n].parent # NULL
             /\ ~heap[heap[n].parent].stub
             /\ heap[heap[n].parent].fname = dirName(heap[n].fname)

\* parse has returned on a list in which a file comes before its parent
C9_Witness ==
  /\ Returned
  /\ bad = {}
  /\ ~opts.errorOnEmpty
  /\ data # Canonical(data)
  /\ \E i, j \in DOMAIN data :
       /\ i < j
       /\ Lvl(data[i]) >= 2
       /\ Name(data[j]) = dirName(Name(data[i]))
       /\ \E n \in result \ {NULL} :
            /\ heap[n].fname = Name(data[i])
            /\ heap[heap[n].parent].fname = Name(data[j])

(***************************************************************************)
(* C2.  Path derivation: the path of every node of the tree under the      *)
(* synthetic root is the join of the titles on the chain from the root     *)
(* (exclusive) down to the node, whatever the titles are.                  *)
(***************************************************************************)
\* the titles from below the top of the chain down to n
RECURSIVE TitleChain(_, _)
TitleChain(h, n) ==
  IF h[n].parent = NULL THEN <<>>
  ELSE TitleChain(h, h[n].parent) \o <<h[n].title>>

C2_PathDerivation ==
  \A n \in DOMAIN heap \ {1} :
    Top(heap, n) = 1 => Path(heap, n) = TitleChain(heap, n)

(***************************************************************************)
(* C8.  Identifier mirrors: once addChild has linked nodes, parentId of a  *)
(* child is the id of its parent and childrenIds of a parent are the ids   *)
(* of its children in order, so that toRawProps carries the links.         *)
(***************************************************************************)
C8_IdentifierMirrors ==
  \A n \in DOMAIN heap :
    /\ heap[n].parent # NULL => toRawProps(heap, n).parentId = heap[n].parent
    /\ heap[n].children # <<>> =>
         toRawProps(heap, n).childrenIds = heap[n].children

(***************************************************************************)
(* C4.  Root uniqueness: when the number of level-1 files of stem `root`   *)
(* is not one, parse returns the empty result and does not throw.          *)
(***************************************************************************)
C4_RootUniqueness ==
  (pc = "done" /\ Cardinality(RootStems(data)) # 1) =>
    thrown = "none" /\ result = {}

(***************************************************************************)
(* C5.  Record and skip: with errorOnBadParse = false, when one file of    *)
(* the list fails to materialize, parse does not throw, `errors` holds     *)
(* exactly one BAD_PARSE entry, for that file, the result holds no entry   *)
(* for the file and every other file has its node.                         *)
(***************************************************************************)
C5_RecordAndSkip ==
  (/\ pc = "done"
   /\ ~opts.errorOnBadParse
   /\ ~opts.errorOnEmpty
   /\ RootFile \in Range(data)
   /\ DistinctStems(data)
   /\ Cardinality(bad) = 1
   /\ bad \subseteq Materialized(data)) =>
    /\ thrown = "none"
    /\ Cardinality({i \in DOMAIN errors : errors[i].status = "BAD_PARSE"}) = 1
    /\ \A e \in ErrorsOf("BAD_PARSE") : e.ent.fpath \in bad
    /\ NULL \notin result
    /\ \A f \in Materialized(data) \ bad :
         \E n \in result : heap[n].fname = Name(f)

(***************************************************************************)
(* C10.  Path uniqueness: with errorOnEmpty = false and pairwise distinct  *)
(* stems, no two nodes of the tree under the root have the same path, and  *)
(* no two stubs stand for the same missing path.                           *)
(***************************************************************************)
C10_PathUniqueness ==
  (Returned /\ ~opts.errorOnEmpty /\ DistinctStems(data)
     /\ RootFile \in Range(data) /\ heap # <<>>) =>
    /\ \A m, n \in DOMAIN heap :
         (m # n /\ ReachesRoot(heap, m) /\ ReachesRoot(heap, n)) =>
           Path(heap, m) # Path(heap, n)
    /\ \A m, n \in Stubs(heap) : m # n => heap[m].fname # heap[n].fname

(***************************************************************************)
(* C7.  Import namespacing: parseSchemaFile of a version-1 file returns    *)
(* first the records its imports bring in, each with its id and the ids    *)
(* of its children prefixed by the imported module, its pattern defaulted  *)
(* to its former id, its parent null and its fname set to the name of the  *)
(* importing file, then the entries of the file itself with their raw ids. *)
(***************************************************************************)
\* the records brought in by a list of imports, each with its module
RECURSIVE Pulled(_, _)
Pulled(imports, i) ==
  IF i > Len(imports) THEN <<>>
  ELSE LET recs == parseSchemaFile(SchemaFile(imports[i]))
       IN [k \in DOMAIN recs |-> [mod |-> imports[i], rec |-> recs[k]]]
          \o Pulled(imports, i + 1)

\* the output for the version-1 file f, with `fname` the fname expected of
\* the imported records
Namespaced(f, out, fname) ==
  LET pulled == Pulled(yaml[f].imports, 1)
      own    == yaml[f].schemas
  IN /\ Len(out) = Len(pulled) + Len(own)
     /\ \A i \in DOMAIN pulled :
          LET r == pulled[i].rec
              m == pulled[i].mod
          IN /\ out[i].id = <<m>> \o r.id
             /\ out[i].fname = fname
             /\ out[i].data.pattern =
                  (IF Falsy(r.data.pattern) THEN r.id ELSE r.data.pattern)
             /\ out[i].parent = NULL
             /\ out[i].children =
                  [k \in DOMAIN r.children |-> <<m>> \o r.children[k]]
     /\ \A j \in DOMAIN own : out[Len(pulled) + j].id = own[j].id

ParsedVersion1 ==
  /\ schemaOut.called
  /\ Len(schemaOut.data) = 1
  /\ ~yaml[schemaOut.data[1]].isArray

\* the claim as stated: the imported records get the fname "domain"
C7_FnameIsDomain ==
  (ParsedVersion1 /\ schemaOut.data[1] = SchemaFile("domain")) =>
    Namespaced(schemaOut.data[1], schemaOut.out, <<"domain">>)

\* the claim amended: the imported records get the name of the importing
\* file without its last extension, "domain.schema"
C7_ImportNamespacing ==
  ParsedVersion1 =>
    Namespaced(schemaOut.data[1], schemaOut.out, Name(schemaOut.data[1]))

\* domain.schema.yml imports shared, which brings in a record x without a
\* pattern and with a child
C7_Witness ==
  /\ ParsedVersion1
  /\ schemaOut.data[1] = SchemaFile("domain")
  /\ Len(yaml[SchemaFile("domain")].imports) >= 1
  /\ yaml[SchemaFile("domain")].imports[1] = "shared"
  /\ \E i \in DOMAIN schemaOut.out :
       /\ schemaOut.out[i].id = <<"shared", "x">>
       /\ schemaOut.out[i].fname = <<"domain", "schema">>
       /\ schemaOut.out[i].data.pattern = <<"x">>
       /\ schemaOut.out[i].children = << <<"shared", "y">> >>

====
